---- MODULE Spec2Model ----
(***************************************************************************)
(* lirr-checker: the departure monitor of index.js (runChecks, the poll    *)
(* timer, the HTTP control handlers) as a state machine.                   *)
(*                                                                         *)
(* Node runs one callback at a time, so one action is one run of a         *)
(* callback from the point it is entered or resumed to the next await      *)
(* that waits for real I/O (schedule download, feed fetch, audio) or to    *)
(* its return.  An await of a promise that is already settled only yields  *)
(* to the microtask queue; no timer or HTTP callback runs there, so the    *)
(* code on both sides of it belongs to the same action.                    *)
(*                                                                         *)
(* The clock is in milliseconds, counted from the local midnight that      *)
(* begins 2026-12-29 (day 0).  The process is started on day 1 or later.   *)
(***************************************************************************)
EXTENDS Integers, Sequences, FiniteSets, TLC

\* ---------------------------------------------------------------- constants

NOTIFY_WINDOW == 30 * 60
CHECK_THROTTLE == 5 * 60 * 1000
POLL_INTERVAL == 60 * 1000
\* dayjs().add(1, 'day') on a clock without daylight-saving changes
DAY_MS == 24 * 60 * 60 * 1000

\* null / undefined of a timestamp (snoozeUntil = null, a missing map entry)
NoTime == -1

\* ------------------------------------------------------------------- bounds

\* days of wall-clock time the model covers (days 1..MaxDay)
MaxDay == 2
\* calls from outside in all: runChecks invocations (by main and by the interval
\* timer) and HTTP control requests
MaxCalls == 3

HMS(h, m, s) == ((h * 60 + m) * 60 + s) * 1000

\* the instants of a day at which something may happen
DayOffsets ==
    { HMS(7, 45, 0), HMS(7, 46, 0), HMS(7, 50, 0), HMS(8, 15, 0) + 500,
      HMS(8, 15, 1) }

Instants == { d * DAY_MS + o : d \in 1..MaxDay, o \in DayOffsets }

\* the runChecks invocations that may be in flight at once: the first one has
\* returned before the timer is armed
Slots == 1..(MaxCalls - 1)

\* ------------------------------------------------------------ configuration

\* config.json: the watch entries.  departureTime is the string split on ':'
\* and mapped to numbers; hasDays/hasUsers tell whether the optional field is set.
Config ==
    << [source |-> "Penn Station", destination |-> "Mineola",
        departureTime |-> <<8, 15>>, hasDays |-> FALSE, days |-> {},
        hasUsers |-> TRUE, users |-> <<"alice">>, audio |-> TRUE],
       [source |-> "Jamaica", destination |-> "Mineola",
        departureTime |-> <<8, 45, 0>>, hasDays |-> TRUE, days |-> {"wed", "thu"},
        hasUsers |-> FALSE, users |-> <<>>, audio |-> TRUE] >>

\* ------------------------------------------------------------- time helpers

timeSecs(str) ==
    str[1] * 3600 + str[2] * 60 + (IF Len(str) >= 3 THEN str[3] ELSE 0)

nowSecs(t) == (t % DAY_MS) \div 1000

DayOf(t) == t \div DAY_MS

\* dayjs().format('YYYYMMDD') as the sequence of its eight digits
DateStr(d) ==
    IF d <= 2
    THEN <<2, 0, 2, 6, 1, 2, (29 + d) \div 10, (29 + d) % 10>>
    ELSE <<2, 0, 2, 7, 0, 1, (d - 2) \div 10, (d - 2) % 10>>

todayDateStr(t) == DateStr(DayOf(t))

\* JavaScript's < on two strings: the first differing character decides
StrLess(a, b) ==
    \E i \in 1..Len(a) :
        /\ i <= Len(b)
        /\ \A j \in 1..(i - 1) : a[j] = b[j]
        /\ a[i] < b[i]

\* dayjs().format('ddd').toLowerCase(); day 0 is a Tuesday
DayName(t) ==
    <<"tue", "wed", "thu", "fri", "sat", "sun", "mon">>[(DayOf(t) % 7) + 1]

departureKey(entry, t) ==
    <<entry.source, entry.destination, entry.departureTime, todayDateStr(t)>>

NoKey == <<"", "", <<>>, <<>>>>

\* ----------------------------------------------------------------- messages

NoStatus == <<0, "", "">>

\* undefined: no message recorded
NoMsg == [kind |-> "none", source |-> "", destination |-> "", status |-> NoStatus]

\* mutant: the minutes are cut off instead of rounded, Math.floor
formatDelayFloor(delaySecs) ==
    LET abs == IF delaySecs < 0 THEN 0 - delaySecs ELSE delaySecs
        mins == abs \div 60
    IN  IF abs < 60 THEN <<0, "", "on time">>
        ELSE <<mins, IF mins # 1 THEN "minutes" ELSE "minute",
               IF delaySecs > 0 THEN "late" ELSE "early">>

\* formatDelay: the text as <<N, "minute(s)", "late" / "early">>, or "on time"
formatDelay(delaySecs) ==
    LET abs == IF delaySecs < 0 THEN 0 - delaySecs ELSE delaySecs
        mins == (2 * abs + 60) \div 120
    IN  IF abs < 60 THEN <<0, "", "on time">>
        ELSE <<mins, IF mins # 1 THEN "minutes" ELSE "minute",
               IF delaySecs > 0 THEN "late" ELSE "early">>

MatcherErrorMsg(entry, isNull) ==
    [kind |-> "Error finding trips",
     source |-> IF isNull THEN "" ELSE entry.source,
     destination |-> "", status |-> NoStatus]

NoTrainMsg(entry) ==
    [kind |-> "No scheduled train found", source |-> entry.source,
     destination |-> entry.destination, status |-> NoStatus]

FeedErrorMsg ==
    [kind |-> "Could not fetch real-time data", source |-> "",
     destination |-> "", status |-> NoStatus]

StatusMsg(entry, delay) ==
    [kind |-> "status", source |-> entry.source,
     destination |-> entry.destination, status |-> formatDelay(delay)]

\* delays the real-time feed may report for a trip
FeedDelays == {0, 59}

\* what fetchRealtimeFeed settles with: a rejection, or a feed
FeedResults ==
    {[ok |-> FALSE, delay |-> 0]} \cup { [ok |-> TRUE, delay |-> d] : d \in FeedDelays }

\* ------------------------------------------------------------ schedule data

Sources == {"Penn Station", "Jamaica"}

\* A loaded schedule, reduced to what the matcher does with each source name:
\* it throws, finds no trip, or finds a trip.
GtfsSnapshots ==
    { [s \in Sources |-> "trips"],
      [s \in Sources |-> IF s = "Penn Station" THEN "none" ELSE "throw"] }

\* gtfsData = null
NullGtfs == [s \in Sources |-> "null"]

\* findMatchingTrips on the shared gtfsData; on null it throws a TypeError,
\* which checkDeparture catches like any other matcher error
MatchOutcome(entry, gtfs) ==
    IF gtfs = NullGtfs THEN "throw" ELSE gtfs[entry.source]

\* ---------------------------------------------------------------- variables

VARIABLES
    now,            \* Date.now()
    alive,          \* FALSE after process.exit(1)
    timer,          \* main(): setInterval armed, its last firing, runChecks calls
    snoozeUntil,
    skipDates,
    gtfsData,       \* main()'s gtfsData, shared by all cycles
    lastChecked,
    checkResults,
    cyc,            \* the runChecks invocations in flight
    requests,       \* history: HTTP control requests handled
    snoozeAt,       \* history: time of the latest POST /snooze
    skipReq,        \* history: the days POST /skip-next-day was asked to skip
    startedAt,      \* history: per departureKey of today, when its latest check started
    prevCheck,      \* history: per departureKey, its latest finished check
    events,         \* history: what the latest step did, in order
    lib             \* a call of a library function on its own: arguments, result

vars ==
    <<now, alive, timer, snoozeUntil, skipDates, gtfsData, lastChecked,
      checkResults, cyc, requests, snoozeAt, skipReq, startedAt, prevCheck,
      events, lib>>

\* no library function is exercised on its own
NoCall == [fn |-> "none"]

EmptyMap == [k \in {} |-> 0]

Put(f, k, v) == [x \in (DOMAIN f) \cup {k} |-> IF x = k THEN v ELSE f[x]]

Restrict(f, S) == [x \in S |-> f[x]]

Get(f, k, default) == IF k \in DOMAIN f THEN f[k] ELSE default

\* a runChecks invocation: where it is, its locals, and what it has done so far
IdleCycle ==
    [pc |-> "idle", initial |-> FALSE, i |-> 0, nowS |-> 0, key |-> NoKey,
     announcements |-> <<>>, gateUnder |-> FALSE, gateSkipReq |-> FALSE,
     checked |-> {}, dispatched |-> FALSE]

NoCheck == [success |-> FALSE, message |-> NoMsg]

\* history: t lies in [T, T + 24h) for the latest POST /snooze, handled at T
UnderSnooze(t) == snoozeAt # NoTime /\ t < snoozeAt + DAY_MS

\* history: the day of t is one POST /skip-next-day was asked to skip
SkipRequested(t) == DayOf(t) \in skipReq

\* the part of the state a run of runChecks reads and writes
State ==
    [alive |-> alive, timer |-> timer, skipDates |-> skipDates,
     gtfsData |-> gtfsData, lastChecked |-> lastChecked,
     checkResults |-> checkResults, cyc |-> cyc, startedAt |-> startedAt,
     prevCheck |-> prevCheck, events |-> <<>>]

\* ------------------------------------------------- decisions of runChecks

\* mutant: the snooze lasts one hour, dayjs().add(1, 'hour')
SnoozeCutoffOneHour(t) == t + 60 * 60 * 1000

\* POST /snooze: dayjs().add('1', 'day')
SnoozeCutoff(t) == t + DAY_MS

\* snoozeUntil && dayjs().isBefore(snoozeUntil)
IsSnoozed(su, t) == su # NoTime /\ t < su

\* skipDates.has(todayDateStr())
IsSkipped(sd, t) == todayDateStr(t) \in sd

\* POST /skip-next-day: dayjs().add(1, 'day').format('YYYYMMDD')
NextDayStr(t) == DateStr(DayOf(t) + 1)

\* days && !days.includes(today) -> continue
DayListed(entry, t) == ~(entry.hasDays /\ DayName(t) \notin entry.days)

\* mutant: both ends of the window excluded, <= 0 and >= NOTIFY_WINDOW
InWindowExclusive(secsUntil) == ~(secsUntil <= 0 \/ secsUntil >= NOTIFY_WINDOW)

\* secsUntil < 0 || secsUntil > NOTIFY_WINDOW -> continue
InWindow(secsUntil) == ~(secsUntil < 0 \/ secsUntil > NOTIFY_WINDOW)

\* mutant: a check exactly CHECK_THROTTLE after the last one is held back too
ThrottledInclusive(lc, key, t) ==
    LET last == Get(lc, key, 0) IN t - last <= CHECK_THROTTLE

\* Date.now() - (lastChecked[key] || 0) < CHECK_THROTTLE -> continue
Throttled(lc, key, t) ==
    LET last == Get(lc, key, 0) IN t - last < CHECK_THROTTLE

\* existing && existing === message
IsDuplicate(existing, message) == existing # NoMsg /\ existing = message

\* mutant: postNotification only on the success path
NotifiesOnSuccessOnly(success, existing, message) ==
    success /\ ~IsDuplicate(existing, message)

\* postNotification(message, users) is called
Notifies(success, existing, message) ==
    IF ~success THEN TRUE ELSE ~IsDuplicate(existing, message)

\* mutant: the new message is never stored
RecordsNever(success, existing, message) == FALSE

\* mutant: the error message of a failed check is stored as well
RecordsErrorsToo(success, existing, message) ==
    ~success \/ ~IsDuplicate(existing, message)

\* checkResults[key] = message
Records(success, existing, message) ==
    success /\ ~IsDuplicate(existing, message)

\* mutant: the error message of a failed check is queued for announce as well
QueuesErrorsToo(success, existing, message, audio) ==
    audio /\ (~success \/ ~IsDuplicate(existing, message))

\* announcements.push({ msg: message, audio: true })
Queues(success, existing, message, audio) ==
    success /\ ~IsDuplicate(existing, message) /\ audio

\* mutant: the new message is put at the front of the list, as unshift would
unshift(announcements, message) == <<message>> \o announcements

\* announcements.push(...): the new message goes to the end of the list
push(announcements, message) == Append(announcements, message)

\* mutant: no key is ever deleted
PruneLastCheckedNever(lc, today) == lc

\* mutant: the test negated, today's keys are the ones deleted
PruneLastCheckedToday(lc, today) ==
    Restrict(lc, { k \in DOMAIN lc : k[4] # today })

\* for (const k of Object.keys(lastChecked)) if (!k.endsWith(`|${today}`)) delete
PruneLastChecked(lc, today) ==
    Restrict(lc, { k \in DOMAIN lc : k[4] = today })

\* mutant: today's date is pruned too, d <= today
PruneSkipDatesToday(sd, today) == { d \in sd : StrLess(today, d) }

\* for (const d of skipDates) if (d < today) skipDates.delete(d)
PruneSkipDates(sd, today) == { d \in sd : ~StrLess(d, today) }

\* a failed schedule load: logger.error, process.exit(1)
AliveAfterLoadFailure(initial) == FALSE

\* mutant: a failed config load ends the process like a failed schedule load
ExitOnConfigFailure(initial) == FALSE

\* a failed config load: logger.error, return
AliveAfterConfigFailure(initial) == TRUE

\* mutant: a failed check leaves the entry loop, as a break would
NextEntryStopOnFailure(i, success) == IF success THEN i + 1 ELSE Len(Config) + 1

\* for (const entry of config): after a check, failed or not, the next entry
NextEntry(i, success) == i + 1

\* ------------------------------------------------------- steps of runChecks

\* runChecks returns (or the process exits in it)
EndCycle(G, p, outcome) ==
    LET c == G.cyc[p] IN
    [G EXCEPT
        !.cyc[p] = IdleCycle,
        \* main(): await runChecks(); setInterval(runChecks, POLL_INTERVAL)
        !.timer = IF c.initial /\ G.alive
                  THEN [@ EXCEPT !.armed = TRUE, !.last = now] ELSE @,
        !.events = Append(@, [type |-> "end", outcome |-> outcome,
                              initial |-> c.initial, gateUnder |-> c.gateUnder,
                              gateSkipReq |-> c.gateSkipReq,
                              checked |-> c.checked,
                              dispatched |-> c.dispatched])]

\* lastChecked[key] = Date.now(), and the check of entry c.i begins
StartCheck(G, p, key) ==
    LET c == G.cyc[p]
        \* a key of an earlier day is never computed again: its history is dropped
        kept == { k \in DOMAIN G.startedAt : k[4] = key[4] }
    IN  [G EXCEPT
            !.lastChecked = Put(@, key, now),
            !.cyc[p].key = key,
            !.cyc[p].checked = @ \cup {c.i},
            !.startedAt = Put(Restrict(@, kept), key, now),
            !.events = Append(@, [type |-> "start", key |-> key, entry |-> c.i,
                                  secsUntil |-> timeSecs(Config[c.i].departureTime)
                                                - c.nowS,
                                  gap |-> IF key \in DOMAIN G.startedAt
                                          THEN now - G.startedAt[key] ELSE NoTime,
                                  prev |-> Get(G.prevCheck, key, NoCheck),
                                  under |-> UnderSnooze(now)])]

\* the check of entry c.i returned { success, message }
FinishCheck(G, p, success, message) ==
    LET c == G.cyc[p]
        entry == Config[c.i]
        key == c.key
        existing == Get(G.checkResults, key, NoMsg)
        notify == Notifies(success, existing, message)
        record == Records(success, existing, message)
        queue == Queues(success, existing, message, entry.audio)
        \* a key no check can finish for any more: its history is dropped
        kept == { k \in DOMAIN G.prevCheck :
                    \/ k[4] = todayDateStr(now)
                    \/ \E q \in Slots : G.cyc[q].pc = "awaitFeed" /\ G.cyc[q].key = k }
    IN  [G EXCEPT
            !.checkResults = IF record THEN Put(@, key, message) ELSE @,
            !.cyc[p].announcements = IF queue THEN push(@, message) ELSE @,
            !.cyc[p].dispatched = @ \/ notify \/ queue,
            !.cyc[p].i = NextEntry(c.i, success),
            !.prevCheck = Put(Restrict(@, kept), key,
                              [success |-> success, message |-> message]),
            !.events = Append(@, [type |-> "done", key |-> key, entry |-> c.i,
                                  success |-> success, message |-> message,
                                  existing |-> existing,
                                  prev |-> Get(G.prevCheck, key, NoCheck),
                                  notified |-> notify, queued |-> queue,
                                  recorded |-> record, audio |-> entry.audio,
                                  under |-> UnderSnooze(now)])]

\* end of runChecks: prune, gtfsData = null
Prune(G, p) ==
    EndCycle([G EXCEPT
                !.lastChecked = PruneLastChecked(@, todayDateStr(now)),
                !.skipDates = PruneSkipDates(@, todayDateStr(now)),
                !.gtfsData = NullGtfs], p, "done")

\* for (const { msg, audio } of announcements) await announce(msg, audio)
AfterLoop(G, p) ==
    LET c == G.cyc[p] IN
    IF c.announcements = <<>> THEN Prune(G, p)
    ELSE [G EXCEPT
            !.cyc[p].pc = "announce",
            !.cyc[p].dispatched = TRUE,
            !.events = Append(@, [type |-> "announce",
                                  message |-> Head(c.announcements),
                                  under |-> UnderSnooze(now)])]

\* for (const entry of config), from entry c.i on, up to the next feed fetch
RECURSIVE RunLoop(_, _)
RunLoop(G, p) ==
    LET c == G.cyc[p] IN
    IF c.i > Len(Config) THEN AfterLoop(G, p)
    ELSE
        LET entry == Config[c.i]
            skip == [G EXCEPT !.cyc[p].i = c.i + 1]
            secsUntil == timeSecs(entry.departureTime) - c.nowS
            key == departureKey(entry, now)
        IN  IF ~DayListed(entry, now) THEN RunLoop(skip, p)
            ELSE IF ~InWindow(secsUntil)
            THEN RunLoop([skip EXCEPT
                            !.events = Append(@, [type |-> "outside", entry |-> c.i,
                                                  secsUntil |-> secsUntil])], p)
            ELSE IF Throttled(G.lastChecked, key, now)
            THEN RunLoop([skip EXCEPT
                            !.events = Append(@, [type |-> "throttled", entry |-> c.i,
                                gap |-> IF key \in DOMAIN G.startedAt
                                        THEN now - G.startedAt[key] ELSE NoTime,
                                prev |-> Get(G.prevCheck, key, NoCheck),
                                pending |-> \E q \in Slots :
                                               /\ G.cyc[q].pc = "awaitFeed"
                                               /\ G.cyc[q].key = key])], p)
            ELSE
                LET G1 == StartCheck(G, p, key)
                    res == MatchOutcome(entry, G1.gtfsData)
                IN  IF res = "throw"
                    THEN RunLoop(FinishCheck(G1, p, FALSE,
                                    MatcherErrorMsg(entry, G1.gtfsData = NullGtfs)), p)
                    ELSE IF res = "none"
                    THEN RunLoop(FinishCheck(G1, p, TRUE, NoTrainMsg(entry)), p)
                    ELSE [G1 EXCEPT !.cyc[p].pc = "awaitFeed"]

\* after await ensureStaticGtfs(): loadStaticGtfs, loadConfig, the entry loop
AfterEnsure(G, p, loadOK, snap, cfgOK) ==
    IF ~loadOK
    THEN EndCycle([G EXCEPT !.alive = AliveAfterLoadFailure(G.cyc[p].initial)],
                  p, "loadError")
    ELSE
        LET G1 == [G EXCEPT !.gtfsData = snap] IN
        IF ~cfgOK
        THEN EndCycle([G1 EXCEPT !.alive = AliveAfterConfigFailure(G.cyc[p].initial)],
                      p, "configError")
        ELSE RunLoop([G1 EXCEPT !.cyc[p].pc = "loop",
                                !.cyc[p].nowS = nowSecs(now),
                                !.cyc[p].i = 1], p)

\* runChecks() is called: the gates, then ensureStaticGtfs
Begin(G, p, initial, download, loadOK, snap, cfgOK) ==
    LET fresh == [IdleCycle EXCEPT !.initial = initial,
                                   !.gateUnder = UnderSnooze(now),
                                   !.gateSkipReq = SkipRequested(now)]
        G0 == [G EXCEPT !.cyc[p] = fresh, !.timer.runs = @ + 1]
    IN  IF IsSnoozed(snoozeUntil, now) THEN EndCycle(G0, p, "snoozed")
        ELSE IF IsSkipped(G.skipDates, now) THEN EndCycle(G0, p, "skipped")
        ELSE IF download THEN [G0 EXCEPT !.cyc[p].pc = "awaitGtfs"]
        ELSE AfterEnsure(G0, p, loadOK, snap, cfgOK)

Commit(G) ==
    /\ alive' = G.alive
    /\ timer' = G.timer
    /\ skipDates' = G.skipDates
    /\ gtfsData' = G.gtfsData
    /\ lastChecked' = G.lastChecked
    /\ checkResults' = G.checkResults
    /\ cyc' = G.cyc
    /\ startedAt' = G.startedAt
    /\ prevCheck' = G.prevCheck
    /\ events' = G.events

\* ------------------------------------------------------------------ actions

Init ==
    /\ now \in { t \in Instants : DayOf(t) = 1 }
    /\ alive = TRUE
    /\ timer = [runs |-> 0, armed |-> FALSE, last |-> NoTime]
    /\ requests = 0
    /\ snoozeUntil = NoTime
    /\ skipDates = {}
    /\ gtfsData = NullGtfs
    /\ lastChecked = EmptyMap
    /\ checkResults = EmptyMap
    /\ cyc = [p \in Slots |-> IdleCycle]
    /\ snoozeAt = NoTime
    /\ skipReq = {}
    /\ startedAt = EmptyMap
    /\ prevCheck = EmptyMap
    /\ events = <<>>
    /\ lib = NoCall

InFlight == { p \in Slots : cyc[p].pc # "idle" }

\* time passes
Tick ==
    /\ alive
    /\ timer.runs > 0
    /\ timer.runs + requests < MaxCalls \/ InFlight # {}
    /\ \E t \in Instants : t > now /\ now' = t
    /\ events' = <<>>
    /\ UNCHANGED <<alive, timer, snoozeUntil, skipDates, gtfsData, lastChecked,
                   checkResults, cyc, requests, snoozeAt, skipReq, startedAt,
                   prevCheck, lib>>

\* main() calls runChecks() for the first time
MainStart ==
    /\ alive
    /\ timer.runs = 0
    /\ \E download, loadOK, cfgOK \in BOOLEAN, snap \in GtfsSnapshots :
           Commit(Begin(State, 1, TRUE, download, loadOK, snap, cfgOK))
    /\ UNCHANGED <<now, snoozeUntil, requests, snoozeAt, skipReq, lib>>

\* the interval timer calls runChecks()
TimerFire ==
    /\ alive
    /\ timer.armed
    /\ timer.runs + requests < MaxCalls
    /\ now - timer.last >= POLL_INTERVAL
    /\ InFlight # Slots
    /\ LET p == CHOOSE q \in Slots \ InFlight : \A r \in Slots \ InFlight : q <= r IN
       \E download, loadOK, cfgOK \in BOOLEAN, snap \in GtfsSnapshots :
           Commit(Begin([State EXCEPT !.timer.last = now], p, FALSE,
                        download, loadOK, snap, cfgOK))
    /\ UNCHANGED <<now, snoozeUntil, requests, snoozeAt, skipReq, lib>>

\* the schedule download of ensureStaticGtfs settles
GtfsReturn(p) ==
    /\ alive
    /\ cyc[p].pc = "awaitGtfs"
    /\ \E loadOK, cfgOK \in BOOLEAN, snap \in GtfsSnapshots :
           Commit(AfterEnsure(State, p, loadOK, snap, cfgOK))
    /\ UNCHANGED <<now, snoozeUntil, requests, snoozeAt, skipReq, lib>>

\* fetchRealtimeFeed settles: rejected, or a feed with the trip's delay
FeedReturn(p) ==
    /\ alive
    /\ cyc[p].pc = "awaitFeed"
    /\ \E r \in FeedResults :
           LET G == IF ~r.ok
                    THEN FinishCheck(State, p, FALSE, FeedErrorMsg)
                    ELSE FinishCheck(State, p, TRUE,
                                     StatusMsg(Config[cyc[p].i], r.delay))
           IN  Commit(RunLoop(G, p))
    /\ UNCHANGED <<now, snoozeUntil, requests, snoozeAt, skipReq, lib>>

\* announce() of the first queued message returns
AnnounceDone(p) ==
    /\ alive
    /\ cyc[p].pc = "announce"
    /\ Commit(AfterLoop([State EXCEPT !.cyc[p].announcements = Tail(@)], p))
    /\ UNCHANGED <<now, snoozeUntil, requests, snoozeAt, skipReq, lib>>

\* POST /snooze
Snooze ==
    /\ alive
    /\ timer.runs > 0
    /\ timer.runs + requests < MaxCalls
    /\ requests' = requests + 1
    /\ snoozeUntil' = SnoozeCutoff(now)
    /\ snoozeAt' = now
    /\ events' = <<>>
    /\ UNCHANGED <<now, alive, timer, skipDates, gtfsData, lastChecked,
                   checkResults, cyc, skipReq, startedAt, prevCheck, lib>>

\* POST /skip-next-day
SkipNextDay ==
    /\ alive
    /\ timer.runs > 0
    /\ timer.runs + requests < MaxCalls
    /\ requests' = requests + 1
    /\ skipDates' = skipDates \cup {NextDayStr(now)}
    /\ skipReq' = skipReq \cup {DayOf(now) + 1}
    /\ events' = <<>>
    /\ UNCHANGED <<now, alive, timer, snoozeUntil, gtfsData, lastChecked,
                   checkResults, cyc, snoozeAt, startedAt, prevCheck, lib>>

Next ==
    \/ Tick
    \/ MainStart
    \/ TimerFire
    \/ \E p \in Slots : GtfsReturn(p)
    \/ \E p \in Slots : FeedReturn(p)
    \/ \E p \in Slots : AnnounceDone(p)
    \/ Snooze
    \/ SkipNextDay

Spec == Init /\ [][Next]_vars

\* ------------------------------------------------------------------- claims

EventIdx == DOMAIN events

IsEnd(e) == e.type = "end"

IsStart(e) == e.type = "start"

IsDone(e) == e.type = "done"

IsAnnounce(e) == e.type = "announce"

IsOutside(e) == e.type = "outside"

\* C1: a cycle whose gate is evaluated less than 24 hours after the latest
\* POST /snooze ends at the gate, having checked no entry and dispatched
\* nothing, and never gets past it; a cycle whose gate is evaluated 24 hours
\* or more after it is not ended by the snooze gate.
C1_SnoozeGate ==
    /\ \A p \in InFlight : ~cyc[p].gateUnder
    /\ \A n \in EventIdx : IsEnd(events[n]) =>
          /\ events[n].gateUnder =>
                /\ events[n].outcome = "snoozed"
                /\ events[n].checked = {}
                /\ ~events[n].dispatched
          /\ events[n].outcome = "snoozed" => events[n].gateUnder

\* C1 witness: a cycle of the day after the snooze request, still within its
\* 24 hours, has just been suppressed.
C1_Witness ==
    /\ snoozeAt # NoTime
    /\ DayOf(now) = DayOf(snoozeAt) + 1
    /\ \E n \in EventIdx : IsEnd(events[n]) /\ events[n].outcome = "snoozed"

\* C2 (as claimed): within 24 hours of a handled POST /snooze no check is
\* started, no notification is posted and no announcement is made, also by a
\* cycle that was past its gate when the request arrived.
C2_NothingWhileSnoozed ==
    \A n \in EventIdx :
        /\ IsStart(events[n]) => ~events[n].under
        /\ IsDone(events[n]) /\ events[n].notified => ~events[n].under
        /\ IsAnnounce(events[n]) => ~events[n].under

\* C3: a cycle whose gate is evaluated on a day POST /skip-next-day was asked
\* to skip ends at a gate having checked no entry, the skip gate ends cycles
\* on no other day, and the date of a requested day stays in skipDates until
\* that day is over.
C3_SkipNextDay ==
    /\ \A p \in InFlight : ~cyc[p].gateSkipReq
    /\ \A n \in EventIdx : IsEnd(events[n]) =>
          /\ events[n].gateSkipReq =>
                /\ events[n].outcome \in {"snoozed", "skipped"}
                /\ events[n].checked = {}
                /\ ~events[n].dispatched
          /\ events[n].outcome = "skipped" => events[n].gateSkipReq
    /\ \A d \in skipReq : d >= DayOf(now) => DateStr(d) \in skipDates

\* C3 witness: a cycle has just been ended by the skip gate, on the day after
\* the request.
C3_Witness ==
    \E n \in EventIdx :
        /\ IsEnd(events[n])
        /\ events[n].outcome = "skipped"
        /\ events[n].gateSkipReq

\* C4: a successful check whose message equals that of the previous check of
\* the same departureKey, also successful, posts no notification and queues
\* no announcement; a successful check whose message differs from the one
\* recorded for the key records it, posts it and, with audio on, queues it.
C4_Dedup ==
    \A n \in EventIdx : IsDone(events[n]) /\ events[n].success =>
        /\ events[n].prev.success /\ events[n].prev.message = events[n].message =>
              ~events[n].notified /\ ~events[n].queued
        /\ events[n].existing # events[n].message =>
              /\ Get(checkResults, events[n].key, NoMsg) = events[n].message
              /\ events[n].notified
              /\ events[n].audio => events[n].queued

\* C4 witness: the second of two successful checks with the same message has
\* just finished.
C4_Witness ==
    \E n \in EventIdx :
        /\ IsDone(events[n])
        /\ events[n].success
        /\ events[n].prev.success
        /\ events[n].prev.message = events[n].message

\* C5: a check of a departureKey starts at least CHECK_THROTTLE milliseconds
\* after the previous start of a check of the same key.
C5_Throttle ==
    \A n \in EventIdx : IsStart(events[n]) =>
        events[n].gap = NoTime \/ events[n].gap >= CHECK_THROTTLE

\* C5 witness: two overlapping cycles each await the feed for a check of the
\* same departureKey.
C5_Witness ==
    \E p, q \in Slots :
        /\ p # q
        /\ cyc[p].pc = "awaitFeed"
        /\ cyc[q].pc = "awaitFeed"
        /\ cyc[p].key = cyc[q].key

\* C6: every check started has 0 <= secsUntil <= 1800, and every entry left
\* out by the window test has secsUntil < 0 or secsUntil > 1800.
C6_Window ==
    \A n \in EventIdx :
        /\ IsStart(events[n]) =>
              events[n].secsUntil >= 0 /\ events[n].secsUntil <= 1800
        /\ IsOutside(events[n]) =>
              events[n].secsUntil < 0 \/ events[n].secsUntil > 1800

\* C6 witness: one cycle has started a check exactly 0 seconds and a check
\* exactly 1800 seconds before departure.
C6_Witness ==
    /\ \E n \in EventIdx : IsStart(events[n]) /\ events[n].secsUntil = 0
    /\ \E n \in EventIdx : IsStart(events[n]) /\ events[n].secsUntil = 1800

\* C7: every failed check posts its error message.
C7_ErrorsNotified ==
    \A n \in EventIdx : IsDone(events[n]) /\ ~events[n].success =>
        events[n].notified

\* C7 witness: a failed check has just posted the very message the previous
\* check of the same departureKey, also failed, had produced.
C7_Witness ==
    \E n \in EventIdx :
        /\ IsDone(events[n])
        /\ ~events[n].success
        /\ events[n].notified
        /\ events[n].prev # NoCheck
        /\ ~events[n].prev.success
        /\ events[n].prev.message = events[n].message

ErrorKinds == {"Error finding trips", "Could not fetch real-time data"}

C9_LoadFailureRecoverable ==
    \A n \in EventIdx :
        IsEnd(events[n]) /\ events[n].outcome = "loadError" /\ ~events[n].initial
            => alive

ConfigFailed(evs) ==
    \E n \in DOMAIN evs : IsEnd(evs[n]) /\ evs[n].outcome = "configError"

\* a cycle passes the gates and starts to wait for the schedule download
StartsDownload ==
    \E p \in Slots : cyc[p].pc # "awaitGtfs" /\ cyc'[p].pc = "awaitGtfs"

\* C10: the step in which a cycle ends on a config load failure starts and
\* finishes no check and dispatches nothing, leaves snoozeUntil, skipDates,
\* lastChecked and checkResults as they were, and leaves the process running
\* with the poll timer armed; the step that takes a cycle from its gates to
\* the schedule download leaves the four as they were, too.
C10_ConfigFailure ==
    [][/\ StartsDownload =>
            UNCHANGED <<snoozeUntil, skipDates, lastChecked, checkResults>>
       /\ ConfigFailed(events') =>
            /\ UNCHANGED <<snoozeUntil, skipDates, lastChecked, checkResults>>
            /\ alive'
            /\ timer'.armed
            /\ \A n \in DOMAIN events' :
                  /\ ~IsStart(events'[n]) /\ ~IsDone(events'[n])
                  /\ ~IsAnnounce(events'[n])
                  /\ IsEnd(events'[n]) =>
                        events'[n].checked = {} /\ ~events'[n].dispatched
      ]_vars

\* C10 witness: a cycle started by the timer has just ended on a config load
\* failure while a check of an earlier cycle is on record.
C10_Witness ==
    /\ ConfigFailed(events)
    /\ \E n \in EventIdx : IsEnd(events[n]) /\ ~events[n].initial
    /\ lastChecked # EmptyMap
    /\ alive

\* the end-of-cycle housekeeping has just been done: lastChecked holds keys of
\* today only, skipDates no date before today, and gtfsData is null
Housekept(lc, sd, g, t) ==
    /\ \A k \in DOMAIN lc : k[4] = todayDateStr(t)
    /\ \A d \in sd : ~StrLess(d, todayDateStr(t))
    /\ g = NullGtfs

\* C11: in the step in which a check of entry e fails, the cycle goes on:
\* every later entry is evaluated (started, or left out by the day, window or
\* throttle test) up to the entry whose feed it then awaits, and the cycle
\* awaits that feed, an announcement, or ends with its housekeeping done; a
\* cycle that has checked an entry never ends other than with housekeeping.
C11_FailureDoesNotEndCycle ==
    [][/\ \A n \in DOMAIN events' :
             IsDone(events'[n]) /\ ~events'[n].success =>
                /\ \A j \in (events'[n].entry + 1)..Len(Config) :
                      \/ ~DayListed(Config[j], now)
                      \/ Throttled(lastChecked, departureKey(Config[j], now), now)
                      \/ \E m \in DOMAIN events' :
                            /\ m > n
                            /\ IsStart(events'[m]) \/ IsOutside(events'[m])
                            /\ events'[m].entry = j
                      \/ \E p \in Slots :
                            /\ cyc'[p] # cyc[p]
                            /\ cyc'[p].pc = "awaitFeed"
                            /\ cyc'[p].i < j
                /\ \/ \E p \in Slots :
                         /\ cyc'[p] # cyc[p]
                         /\ cyc'[p].pc = "awaitFeed"
                         /\ cyc'[p].i > events'[n].entry
                   \/ \E p \in Slots :
                         /\ cyc'[p] # cyc[p]
                         /\ cyc'[p].pc = "announce"
                         /\ cyc'[p].i = Len(Config) + 1
                   \/ \E m \in DOMAIN events' :
                         m > n /\ IsEnd(events'[m]) /\ events'[m].outcome = "done"
       /\ \A m \in DOMAIN events' :
             IsEnd(events'[m]) /\ events'[m].checked # {} =>
                /\ events'[m].outcome = "done"
                /\ Housekept(lastChecked', skipDates', gtfsData', now)
      ]_vars

\* C11 witness: the check of the first entry has just failed and the check of
\* the second entry was started after it, in the same cycle.
C11_Witness ==
    \E n, m \in EventIdx :
        /\ n < m
        /\ IsDone(events[n]) /\ ~events[n].success /\ events[n].entry = 1
        /\ IsStart(events[m]) /\ events[m].entry = 2

IsThrottled(e) == e.type = "throttled"

\* C12 (as claimed): an entry whose latest check has failed is checked again
\* by the next cycle that finds it listed for the day and inside the window;
\* the throttle never holds it back.
C12_RetriedNextCycle ==
    \A n \in EventIdx :
        IsThrottled(events[n]) /\ ~events[n].pending /\ events[n].prev # NoCheck
            => events[n].prev.success

\* C12 (amended): a cycle checks an entry only at its position in the list,
\* so never twice; a check of a departureKey whose previous check failed
\* starts CHECK_THROTTLE or more after the previous start, and the throttle
\* holds an entry back only less than CHECK_THROTTLE after the previous
\* start, so that a cycle which finds the entry listed and inside the window
\* CHECK_THROTTLE or more after the failed check checks it again.
C12_RetriedAfterThrottle ==
    /\ \A p \in InFlight : \A j \in cyc[p].checked :
          \/ j < cyc[p].i
          \/ j = cyc[p].i /\ cyc[p].pc = "awaitFeed"
    /\ \A n \in EventIdx :
          /\ IsStart(events[n]) /\ events[n].prev # NoCheck /\ ~events[n].prev.success
                => events[n].gap >= CHECK_THROTTLE
          /\ IsThrottled(events[n])
                => events[n].gap # NoTime /\ events[n].gap < CHECK_THROTTLE

\* C12 witness: a check has just been started exactly CHECK_THROTTLE after
\* the start of its predecessor on the same departureKey, which failed.
C12_Witness ==
    \E n \in EventIdx :
        /\ IsStart(events[n])
        /\ events[n].prev # NoCheck
        /\ ~events[n].prev.success
        /\ events[n].gap = CHECK_THROTTLE

\* ===================================================== the library functions
\* Each function of gtfs-static.js and gtfs-realtime.js is also run on its own:
\* a call is drawn in the initial state and the function is applied to it, with
\* the monitor standing still.

monitorVars ==
    <<now, alive, timer, snoozeUntil, skipDates, gtfsData, lastChecked,
      checkResults, cyc, requests, snoozeAt, skipReq, startedAt, prevCheck,
      events>>

\* the monitor before main() has run, on the morning of day 1
MonitorIdle ==
    /\ now = DAY_MS + HMS(7, 45, 0)
    /\ alive = TRUE
    /\ timer = [runs |-> 0, armed |-> FALSE, last |-> NoTime]
    /\ requests = 0
    /\ snoozeUntil = NoTime
    /\ skipDates = {}
    /\ gtfsData = NullGtfs
    /\ lastChecked = EmptyMap
    /\ checkResults = EmptyMap
    /\ cyc = [p \in Slots |-> IdleCycle]
    /\ snoozeAt = NoTime
    /\ skipReq = {}
    /\ startedAt = EmptyMap
    /\ prevCheck = EmptyMap
    /\ events = <<>>

Min(S) == CHOOSE x \in S : \A y \in S : x <= y

Abs(x) == IF x < 0 THEN 0 - x ELSE x

\* ------------------------------------------------------------ gtfs-static.js

DEPARTURE_TOLERANCE == 5 * 60

\* toLowerCase on one character of the alphabet the stop names are written in
LowerChar(c) ==
    CASE c = "A" -> "a" [] c = "B" -> "b" [] c = "C" -> "c" [] OTHER -> c

\* String.prototype.toLowerCase; a string is the sequence of its characters
toLowerCase(str) == [i \in DOMAIN str |-> LowerChar(str[i])]

\* String.prototype.includes
includes(name, q) ==
    \E i \in 0..(Len(name) - Len(q)) : SubSeq(name, i + 1, i + Len(q)) = q

\* Number() of a string of decimal digits
RECURSIVE Number(_)
Number(digits) ==
    IF digits = <<>> THEN 0
    ELSE 10 * Number(SubSeq(digits, 1, Len(digits) - 1)) + digits[Len(digits)]

\* the keys of an object in insertion order: key[i] of each row, first time seen
RECURSIVE KeyOrder(_)
KeyOrder(keys) ==
    IF keys = <<>> THEN <<>>
    ELSE LET front == KeyOrder(SubSeq(keys, 1, Len(keys) - 1))
             k == keys[Len(keys)]
         IN  IF \E i \in DOMAIN front : front[i] = k THEN front
             ELSE Append(front, k)

\* obj[key(row)] = row for each row in turn: the last row of a key stays
LastRow(rows, keys, k) ==
    rows[CHOOSE i \in DOMAIN rows :
            keys[i] = k /\ \A j \in DOMAIN rows : j > i => keys[j] # k]

\* (obj[key(row)] = obj[key(row)] || []).push(row): the rows of a key, in order
RowsOf(rows, keys, k) ==
    LET at == { i \in DOMAIN rows : keys[i] = k }
        F[n \in 0..Len(rows)] ==
            IF n = 0 THEN <<>>
            ELSE IF n \in at THEN Append(F[n - 1], rows[n]) ELSE F[n - 1]
    IN  F[Len(rows)]

\* loadStaticGtfs: the parsed files, indexed.  nameOrder and tripOrder are the
\* insertion orders of stopsByName and stopTimesByTrip (Object.entries).
loadStaticGtfs(files) ==
    LET names == [i \in DOMAIN files.stops |-> toLowerCase(files.stops[i].stop_name)]
        ids == [i \in DOMAIN files.stops |-> files.stops[i].stop_id]
        stTrip == [i \in DOMAIN files.stopTimes |-> files.stopTimes[i].trip_id]
        tripIds == [i \in DOMAIN files.trips |-> files.trips[i].trip_id]
        calSvc == [i \in DOMAIN files.calendar |-> files.calendar[i].service_id]
        cdSvc == [i \in DOMAIN files.calendarDates |->
                    files.calendarDates[i].service_id]
        Range(f) == { f[i] : i \in DOMAIN f }
    IN  [stopsByName |-> [k \in Range(names) |-> RowsOf(files.stops, names, k)],
         nameOrder |-> KeyOrder(names),
         stopsById |-> [k \in Range(ids) |-> LastRow(files.stops, ids, k)],
         stopTimesByTrip |->
            [k \in Range(stTrip) |-> RowsOf(files.stopTimes, stTrip, k)],
         tripOrder |-> KeyOrder(stTrip),
         tripsById |-> [k \in Range(tripIds) |-> LastRow(files.trips, tripIds, k)],
         calByService |->
            [k \in Range(calSvc) |-> LastRow(files.calendar, calSvc, k)],
         calDatesByService |->
            [k \in Range(cdSvc) |-> RowsOf(files.calendarDates, cdSvc, k)]]

\* dayjs().format('dddd').toLowerCase(); day 0 is a Tuesday
LongDayName(t) ==
    <<"tuesday", "wednesday", "thursday", "friday", "saturday", "sunday",
      "monday">>[(DayOf(t) % 7) + 1]

\* mutant: the calendar is consulted first, the exceptions only for a service
\* that has a calendar row and within its date range
isServiceActiveCalendarFirst(serviceId, data, t) ==
    LET dateStr == todayDateStr(t)
        exs == IF serviceId \in DOMAIN data.calDatesByService
               THEN data.calDatesByService[serviceId] ELSE <<>>
        hits == { i \in DOMAIN exs : exs[i].date = dateStr }
    IN  IF serviceId \notin DOMAIN data.calByService THEN FALSE
        ELSE LET cal == data.calByService[serviceId] IN
             IF StrLess(dateStr, cal.start_date) \/ StrLess(cal.end_date, dateStr)
             THEN FALSE
             ELSE IF hits # {} THEN exs[Min(hits)].exception_type = "1"
             ELSE cal.days[LongDayName(t)] = "1"

\* isServiceActive(serviceId, gtfsData), called at time t
isServiceActive(serviceId, data, t) ==
    LET dateStr == todayDateStr(t)
        dayName == LongDayName(t)
        exs == IF serviceId \in DOMAIN data.calDatesByService
               THEN data.calDatesByService[serviceId] ELSE <<>>
        hits == { i \in DOMAIN exs : exs[i].date = dateStr }
    IN  IF hits # {} THEN exs[Min(hits)].exception_type = "1"
        ELSE IF serviceId \notin DOMAIN data.calByService THEN FALSE
        ELSE LET cal == data.calByService[serviceId] IN
             IF StrLess(dateStr, cal.start_date) \/ StrLess(cal.end_date, dateStr)
             THEN FALSE
             ELSE cal.days[dayName] = "1"

\* gtfsTimeSecs: 'HH:MM:SS' split on ':' and mapped to numbers, as a duration
gtfsTimeSecs(str) ==
    str[1] * 3600 + str[2] * 60 + (IF Len(str) >= 3 THEN str[3] ELSE 0)

\* the lower-case names every object inherits a member under: stopsByName is
\* a plain object ({}), so stopsByName[name] is truthy for them
InheritedKeys ==
    { <<"c", "o", "n", "s", "t", "r", "u", "c", "t", "o", "r">>,
      <<"_", "_", "p", "r", "o", "t", "o", "_", "_">> }

\* what stopsByName[name] is for an inherited name: a member of
\* Object.prototype, no array of stops
NotAnArray == <<[member |-> "Object.prototype"]>>

\* findStops: the group of the exact (lower-cased) name, or else the groups of
\* all names that contain the query, in insertion order
findStops(query, data) ==
    LET lq == toLowerCase(query)
        order == data.nameOrder
        F[n \in 0..Len(order)] ==
            IF n = 0 THEN <<>>
            ELSE IF includes(order[n], lq)
                 THEN F[n - 1] \o data.stopsByName[order[n]]
                 ELSE F[n - 1]
    IN  IF lq \in DOMAIN data.stopsByName THEN data.stopsByName[lq]
        ELSE IF lq \in InheritedKeys THEN NotAnArray
        ELSE F[Len(order)]

\* sts.slice().sort((a, b) => Number(a.stop_sequence) - Number(b.stop_sequence)):
\* a stable sort
RECURSIVE SortBySequence(_)
SortBySequence(sts) ==
    IF sts = <<>> THEN <<>>
    ELSE LET h == Head(sts)
             rest == SortBySequence(Tail(sts))
             k == Cardinality({ i \in DOMAIN rest :
                        Number(rest[i].stop_sequence) < Number(h.stop_sequence) })
         IN  SubSeq(rest, 1, k) \o <<h>> \o SubSeq(rest, k + 1, Len(rest))

\* the body of findMatchingTrips' loop for one trip: what it pushes to results
MatchTrip(tripId, srcIds, dstIds, source, destination, deptSecs, data, t) ==
    LET sorted == SortBySequence(data.stopTimesByTrip[tripId])
        srcAt == { i \in DOMAIN sorted : sorted[i].stop_id \in srcIds }
    IN  IF srcAt = {} THEN <<>>
        ELSE
            LET srcIdx == Min(srcAt)
                srcSt == sorted[srcIdx]
                dstAt == { i \in DOMAIN sorted :
                             i > srcIdx /\ sorted[i].stop_id \in dstIds }
            IN  IF Abs(gtfsTimeSecs(srcSt.departure_time) - deptSecs)
                       > DEPARTURE_TOLERANCE THEN <<>>
                ELSE IF dstAt = {} THEN <<>>
                ELSE IF tripId \notin DOMAIN data.tripsById THEN <<>>
                ELSE IF ~isServiceActive(data.tripsById[tripId].service_id, data, t)
                THEN <<>>
                ELSE
                    LET dstSt == sorted[Min(dstAt)] IN
                    << [tripId |-> tripId,
                        srcStopId |-> srcSt.stop_id,
                        srcStopName |->
                            IF srcSt.stop_id \in DOMAIN data.stopsById
                            THEN data.stopsById[srcSt.stop_id].stop_name
                            ELSE source,
                        dstStopId |-> dstSt.stop_id,
                        dstStopName |->
                            IF dstSt.stop_id \in DOMAIN data.stopsById
                            THEN data.stopsById[dstSt.stop_id].stop_name
                            ELSE destination,
                        scheduledDep |-> srcSt.departure_time,
                        scheduledArr |-> dstSt.arrival_time] >>

\* findMatchingTrips(source, destination, deptSecs, gtfsData), called at time t:
\* the error it throws, or the trips it returns
findMatchingTrips(source, destination, deptSecs, data, t) ==
    LET srcStops == findStops(source, data)
        dstStops == findStops(destination, data)
        srcIds == { srcStops[i].stop_id : i \in DOMAIN srcStops }
        dstIds == { dstStops[i].stop_id : i \in DOMAIN dstStops }
        order == data.tripOrder
        F[n \in 0..Len(order)] ==
            IF n = 0 THEN <<>>
            ELSE F[n - 1] \o MatchTrip(order[n], srcIds, dstIds, source,
                                       destination, deptSecs, data, t)
    IN  IF srcStops = <<>>
        THEN [error |-> "No stops found", query |-> source, trips |-> <<>>]
        ELSE IF dstStops = <<>>
        THEN [error |-> "No stops found", query |-> destination, trips |-> <<>>]
        \* srcStops.map / dstStops.map of a value that is no array
        ELSE IF srcStops = NotAnArray
        THEN [error |-> "TypeError", query |-> source, trips |-> <<>>]
        ELSE IF dstStops = NotAnArray
        THEN [error |-> "TypeError", query |-> destination, trips |-> <<>>]
        ELSE [error |-> "", query |-> <<>>, trips |-> F[Len(order)]]

\* ----------------------------------------------- findMatchingTrips on its own

\* stop-times of the trip the call varies
MaxStopTimes == 3

\* stops.txt: two stops named "ab" up to case, one named "bc", one named "c"
StopRows ==
    << [stop_id |-> "1", stop_name |-> <<"A", "b">>],
       [stop_id |-> "2", stop_name |-> <<"a", "b">>],
       [stop_id |-> "3", stop_name |-> <<"b", "c">>],
       [stop_id |-> "4", stop_name |-> <<"c">>] >>

\* departure_time values around the target 08:15:00: 301 and 300 seconds
\* before it, 300 and 301 seconds after it
DepartureTimes == { <<8, 9, 59>>, <<8, 10, 0>>, <<8, 20, 0>>, <<8, 20, 1>> }

\* stop_sequence values as written in stop_times.txt: 2, 10, 11, ...
SequenceText(k) == IF k = 1 THEN <<2>> ELSE <<1, k - 2>>

AllDays ==
    {"monday", "tuesday", "wednesday", "thursday", "friday", "saturday", "sunday"}

\* calendar.txt: service SA runs every day, service SI on no day
CalendarRows ==
    << [service_id |-> "SA", start_date |-> DateStr(0), end_date |-> DateStr(4),
        days |-> [d \in AllDays |-> "1"]],
       [service_id |-> "SI", start_date |-> DateStr(0), end_date |-> DateStr(4),
        days |-> [d \in AllDays |-> "0"]] >>

\* the stop_times.txt rows of trip T1, in file order, for the stops, departure
\* times and stop_sequence numbers of a call
T1Rows(stops, deps, order) ==
    [i \in 1..MaxStopTimes |->
        [trip_id |-> "T1", stop_id |-> stops[i], departure_time |-> deps[i],
         arrival_time |-> deps[i], stop_sequence |-> SequenceText(order[i])]]

\* trip T2 leaves stop 2 at 08:15:00 for stop 4 and runs every day
T2Rows ==
    << [trip_id |-> "T2", stop_id |-> "2", departure_time |-> <<8, 15, 0>>,
        arrival_time |-> <<8, 15, 0>>, stop_sequence |-> <<1>>],
       [trip_id |-> "T2", stop_id |-> "4", departure_time |-> <<8, 40, 0>>,
        arrival_time |-> <<8, 40, 0>>, stop_sequence |-> <<2>>] >>

\* the files of a call: service "" leaves T1 out of trips.txt
TripFiles(call) ==
    [stops |-> StopRows,
     stopTimes |-> T1Rows(call.stops, call.deps, call.order) \o T2Rows,
     trips |-> (IF call.service = "" THEN <<>>
                ELSE <<[trip_id |-> "T1", service_id |-> call.service]>>)
               \o <<[trip_id |-> "T2", service_id |-> "SA"]>>,
     calendar |-> CalendarRows,
     calendarDates |-> <<>>]

TripCalls ==
    { [fn |-> "findMatchingTrips", stage |-> "call", stops |-> s, deps |-> d,
       order |-> o, service |-> v, source |-> <<"a", "b">>,
       destination |-> <<"C">>, deptSecs |-> timeSecs(<<8, 15>>),
       result |-> [error |-> "", query |-> <<>>, trips |-> <<>>]] :
      s \in [1..MaxStopTimes -> {"1", "2", "4"}],
      d \in [1..MaxStopTimes -> DepartureTimes],
      o \in Permutations(1..MaxStopTimes),
      v \in {"SA", "SI", ""} }

InitTrips == MonitorIdle /\ lib \in TripCalls

\* findMatchingTrips(source, destination, deptSecs, gtfsData) returns
CallFindMatchingTrips ==
    /\ lib.fn = "findMatchingTrips"
    /\ lib.stage = "call"
    /\ lib' = [lib EXCEPT
                 !.stage = "return",
                 !.result = findMatchingTrips(lib.source, lib.destination,
                                lib.deptSecs, loadStaticGtfs(TripFiles(lib)), now)]
    /\ UNCHANGED monitorVars

NextTrips == CallFindMatchingTrips

SpecTrips == InitTrips /\ [][NextTrips]_vars

\* the trips of a call for which the three conditions hold: a stop-time at a
\* stop of the source set departs within DEPARTURE_TOLERANCE of the target, a
\* stop-time later in stop_sequence is at a stop of the destination set, and
\* the trip's service is active on the day
TripsMeetingConditions(call) ==
    LET files == TripFiles(call)
        data == loadStaticGtfs(files)
        rows == files.stopTimes
        src == findStops(call.source, data)
        dst == findStops(call.destination, data)
        srcIds == { src[i].stop_id : i \in DOMAIN src }
        dstIds == { dst[i].stop_id : i \in DOMAIN dst }
        Served(tr) ==
            \E k \in DOMAIN files.trips :
                /\ files.trips[k].trip_id = tr
                /\ isServiceActive(files.trips[k].service_id, data, now)
    IN  { tr \in { rows[i].trip_id : i \in DOMAIN rows } :
            /\ \E i, j \in DOMAIN rows :
                  /\ rows[i].trip_id = tr /\ rows[j].trip_id = tr
                  /\ rows[i].stop_id \in srcIds
                  /\ Abs(gtfsTimeSecs(rows[i].departure_time) - call.deptSecs)
                        <= DEPARTURE_TOLERANCE
                  /\ Number(rows[j].stop_sequence) > Number(rows[i].stop_sequence)
                  /\ rows[j].stop_id \in dstIds
            /\ Served(tr) }

\* C13 (as claimed): findMatchingTrips returns exactly the trips for which the
\* three conditions hold, a trip whose second visit to a stop of the source
\* set is the one within tolerance included.
C13_ExactlyMatchingTrips ==
    lib.fn = "findMatchingTrips" /\ lib.stage = "return" =>
        { lib.result.trips[i].tripId : i \in DOMAIN lib.result.trips }
            = TripsMeetingConditions(lib)

\* ------------------------------------------------- isServiceActive on its own

\* rows of calendar_dates.txt for the service of a call
MaxExceptions == 2

\* the days the calendar rows and the calls are about: 2026-12-29 .. 2027-01-02
CalendarDays == 0..4

\* the days on which isServiceActive is called
CallDays == 1..3

\* weekly patterns of a calendar.txt row: no day, Thursdays, every day
WeeklyPatterns ==
    { [d \in AllDays |-> "0"],
      [d \in AllDays |-> IF d = "thursday" THEN "1" ELSE "0"],
      [d \in AllDays |-> "1"] }

\* rows of calendar_dates.txt: exception_type 1 adds the date, 2 removes it
ExceptionRows ==
    { [service_id |-> "S", day |-> d, exception_type |-> x] :
        d \in CallDays, x \in {"1", "2"} }

ExceptionLists ==
    UNION { [1..n -> ExceptionRows] : n \in 0..MaxExceptions }

\* the files of a call: the days of its rows written as YYYYMMDD
CalendarFiles(call) ==
    [stops |-> <<>>, stopTimes |-> <<>>, trips |-> <<>>,
     calendar |->
        IF call.hasCalendar
        THEN <<[service_id |-> "S", start_date |-> DateStr(call.startDay),
                end_date |-> DateStr(call.endDay), days |-> call.weekly]>>
        ELSE <<>>,
     calendarDates |->
        [i \in DOMAIN call.exceptions |->
            [service_id |-> call.exceptions[i].service_id,
             date |-> DateStr(call.exceptions[i].day),
             exception_type |-> call.exceptions[i].exception_type]]]

CalendarCalls ==
    { [fn |-> "isServiceActive", stage |-> "call", day |-> d, hasCalendar |-> h,
       startDay |-> s, endDay |-> e, weekly |-> w, exceptions |-> x,
       result |-> FALSE] :
      d \in CallDays, h \in BOOLEAN, s \in CalendarDays, e \in CalendarDays,
      w \in WeeklyPatterns, x \in ExceptionLists }

\* a call without a calendar row has nothing to vary in it
InitCalendar ==
    /\ MonitorIdle
    /\ lib \in { c \in CalendarCalls :
                   c.hasCalendar \/ (c.startDay = 0 /\ c.endDay = 0
                                     /\ c.weekly = [d \in AllDays |-> "0"]) }

\* isServiceActive(serviceId, gtfsData) returns
CallIsServiceActive ==
    /\ lib.fn = "isServiceActive"
    /\ lib.stage = "call"
    /\ lib' = [lib EXCEPT
                 !.stage = "return",
                 !.result = isServiceActive("S", loadStaticGtfs(CalendarFiles(lib)),
                                            lib.day * DAY_MS + HMS(7, 45, 0))]
    /\ UNCHANGED monitorVars

NextCalendar == CallIsServiceActive

SpecCalendar == InitCalendar /\ [][NextCalendar]_vars

\* the rows of calendar_dates.txt of a call that are for the day of the call
ExceptionsToday(call) ==
    { i \in DOMAIN call.exceptions : call.exceptions[i].day = call.day }

\* C14: with an exception row for the day of the call, isServiceActive returns
\* whether (the first such) row adds the date, whatever the calendar row says;
\* without one it returns FALSE when the service has no calendar row, and
\* otherwise whether the day lies within [start_date, end_date] and the
\* weekly flag of its weekday is set.
C14_ServiceActive ==
    lib.fn = "isServiceActive" /\ lib.stage = "return" =>
        LET hits == ExceptionsToday(lib)
            first == CHOOSE i \in hits : \A j \in hits : i <= j
        IN  lib.result =
               IF hits # {} THEN lib.exceptions[first].exception_type = "1"
               ELSE /\ lib.hasCalendar
                    /\ lib.startDay <= lib.day
                    /\ lib.day <= lib.endDay
                    /\ lib.weekly[LongDayName(lib.day * DAY_MS)] = "1"

\* C14 witness: isServiceActive has returned TRUE for a day outside the date
\* range of the calendar row, added by an exception row.
C14_Witness ==
    /\ lib.fn = "isServiceActive"
    /\ lib.stage = "return"
    /\ lib.result
    /\ lib.hasCalendar
    /\ lib.endDay < lib.day
    /\ ExceptionsToday(lib) # {}

\* ------------------------------------------------------- findStops on its own

\* characters of a stop query
MaxQueryLen == 2

\* the rows stops.txt is made of: "Ab", "abc", "ab", "b"
StopPool ==
    << [stop_id |-> "1", stop_name |-> <<"A", "b">>],
       [stop_id |-> "2", stop_name |-> <<"a", "b", "c">>],
       [stop_id |-> "3", stop_name |-> <<"a", "b">>],
       [stop_id |-> "4", stop_name |-> <<"b">>] >>

\* stops.txt: the rows of the pool picked by a set of indices, in pool order
StopTable(picked) == SelectSeq(StopPool, LAMBDA r : r.stop_id \in picked)

\* the queries: every string of up to MaxQueryLen of the letters, and the name
\* "constructor"
StopQueries ==
    UNION { [1..n -> {"A", "a", "b", "c"}] : n \in 0..MaxQueryLen }
        \cup { <<"c", "o", "n", "s", "t", "r", "u", "c", "t", "o", "r">> }

\* one trip, T1, calls at every stop of stops.txt in file order at 08:15:00
StopFiles(call) ==
    LET stops == StopTable(call.picked) IN
    [stops |-> stops,
     stopTimes |->
        [i \in DOMAIN stops |->
            [trip_id |-> "T1", stop_id |-> stops[i].stop_id,
             departure_time |-> <<8, 15, 0>>, arrival_time |-> <<8, 15, 0>>,
             stop_sequence |-> <<i>>]],
     trips |-> <<[trip_id |-> "T1", service_id |-> "SA"]>>,
     calendar |-> CalendarRows,
     calendarDates |-> <<>>]

StopCalls ==
    { [fn |-> "findStops", stage |-> "call", picked |-> s, source |-> q,
       destination |-> d, found |-> <<>>,
       result |-> [error |-> "", query |-> <<>>, trips |-> <<>>]] :
      s \in SUBSET {"1", "2", "3", "4"}, q \in StopQueries,
      d \in {<<"b">>, <<"B", "c">>} }

InitStops == MonitorIdle /\ lib \in StopCalls

\* findStops(source, gtfsData) returns
CallFindStops ==
    /\ lib.fn = "findStops"
    /\ lib.stage = "call"
    /\ lib' = [lib EXCEPT
                 !.stage = "found",
                 !.found = findStops(lib.source, loadStaticGtfs(StopFiles(lib)))]
    /\ UNCHANGED monitorVars

\* findMatchingTrips(source, destination, 08:15:00, gtfsData) returns or throws
CallFindMatchingTripsByName ==
    /\ lib.fn = "findStops"
    /\ lib.stage = "found"
    /\ lib' = [lib EXCEPT
                 !.stage = "return",
                 !.result = findMatchingTrips(lib.source, lib.destination,
                                timeSecs(<<8, 15>>),
                                loadStaticGtfs(StopFiles(lib)), now)]
    /\ UNCHANGED monitorVars

NextStops == CallFindStops \/ CallFindMatchingTripsByName

SpecStops == InitStops /\ [][NextStops]_vars

\* two strings are equal up to the case of their letters
SameIgnoringCase(a, b) ==
    Len(a) = Len(b) /\ \A i \in DOMAIN a : LowerChar(a[i]) = LowerChar(b[i])

\* q occurs in name at some position, up to the case of the letters
ContainsIgnoringCase(name, q) ==
    \E k \in 1..(Len(name) + 1) :
        \A i \in DOMAIN q :
            k + i - 1 <= Len(name) /\ LowerChar(name[k + i - 1]) = LowerChar(q[i])

\* the ids of the stops findStops is to return for q
StopsFor(picked, q) ==
    LET rows == StopTable(picked)
        exact == { i \in DOMAIN rows : SameIgnoringCase(rows[i].stop_name, q) }
        within == { i \in DOMAIN rows : ContainsIgnoringCase(rows[i].stop_name, q) }
    IN  { rows[i].stop_id : i \in (IF exact # {} THEN exact ELSE within) }

\* C15 (as claimed): for any query, findStops returns, each once, the stops
\* whose name equals the query up to case when there are any, and otherwise
\* the stops whose name contains the query; findMatchingTrips throws "No stops
\* found" for the source when findStops finds none for it, else for the
\* destination when it finds none for that, and returns trips only when both
\* are found.
C15_FindStops ==
    /\ lib.fn = "findStops" /\ lib.stage \in {"found", "return"} =>
          /\ lib.found # NotAnArray
          /\ { lib.found[i].stop_id : i \in DOMAIN lib.found }
                = StopsFor(lib.picked, lib.source)
          /\ Len(lib.found) = Cardinality(StopsFor(lib.picked, lib.source))
    /\ lib.fn = "findStops" /\ lib.stage = "return" =>
          LET noSrc == StopsFor(lib.picked, lib.source) = {}
              noDst == StopsFor(lib.picked, lib.destination) = {}
          IN  /\ lib.result.error = "No stops found" <=> (noSrc \/ noDst)
              /\ noSrc => lib.result.query = lib.source
              /\ ~noSrc /\ noDst => lib.result.query = lib.destination
              /\ noSrc \/ noDst => lib.result.trips = <<>>

\* ---------------------------------------------------------- gtfs-realtime.js

\* mutant: a trip without an update for the stop counts as not found
getTripDelayStopRequired(feed, tripId, stopId) ==
    LET ents == { i \in DOMAIN feed.entity :
                    /\ feed.entity[i].hasTripUpdate
                    /\ feed.entity[i].tripUpdate.trip.tripId = tripId }
    IN  IF ents = {} THEN [found |-> FALSE, delay |-> 0]
        ELSE
            LET stus == feed.entity[Min(ents)].tripUpdate.stopTimeUpdate
                at == { j \in DOMAIN stus : stus[j].stopId = stopId }
            IN  IF at = {} THEN [found |-> FALSE, delay |-> 0]
                ELSE LET stu == stus[Min(at)] IN
                     [found |-> TRUE,
                      delay |-> IF stu.departure.present /\ stu.departure.hasDelay
                                THEN stu.departure.delay
                                ELSE IF stu.arrival.present /\ stu.arrival.hasDelay
                                THEN stu.arrival.delay
                                ELSE 0]

\* getTripDelay(feed, tripId, stopId): the first entity with a tripUpdate for
\* tripId decides, and in it the first stopTimeUpdate for stopId.  An event
\* (departure, arrival) is present or not, and carries a delay or not:
\* stu.departure?.delay != null ? stu.departure.delay : (stu.arrival?.delay ?? 0)
getTripDelay(feed, tripId, stopId) ==
    LET ents == { i \in DOMAIN feed.entity :
                    /\ feed.entity[i].hasTripUpdate
                    /\ feed.entity[i].tripUpdate.trip.tripId = tripId }
    IN  IF ents = {} THEN [found |-> FALSE, delay |-> 0]
        ELSE
            LET stus == feed.entity[Min(ents)].tripUpdate.stopTimeUpdate
                at == { j \in DOMAIN stus : stus[j].stopId = stopId }
            IN  IF at = {} THEN [found |-> TRUE, delay |-> 0]
                ELSE LET stu == stus[Min(at)] IN
                     [found |-> TRUE,
                      delay |-> IF stu.departure.present /\ stu.departure.hasDelay
                                THEN stu.departure.delay
                                ELSE IF stu.arrival.present /\ stu.arrival.hasDelay
                                THEN stu.arrival.delay
                                ELSE 0]

\* ---------------------------------------------------- getTripDelay on its own

\* entities of a feed
MaxEntities == 2
\* stopTimeUpdates of a trip update
MaxUpdates == 2

\* no departure / arrival in the update
NoEvent == [present |-> FALSE, hasDelay |-> FALSE, delay |-> 0]

\* a departure / arrival that carries a time but no delay
EventWithoutDelay == [present |-> TRUE, hasDelay |-> FALSE, delay |-> 0]

EventWithDelay(d) == [present |-> TRUE, hasDelay |-> TRUE, delay |-> d]

StopTimeUpdates ==
    { [stopId |-> s, departure |-> dep, arrival |-> arr] :
        s \in {"1", "2"},
        dep \in {NoEvent, EventWithoutDelay, EventWithDelay(120)},
        arr \in {NoEvent, EventWithDelay(300)} }

\* an entity that is no trip update (a vehicle position, an alert)
OtherEntity ==
    [hasTripUpdate |-> FALSE,
     tripUpdate |-> [trip |-> [tripId |-> ""], stopTimeUpdate |-> <<>>]]

FeedEntities ==
    {OtherEntity} \cup
    { [hasTripUpdate |-> TRUE,
       tripUpdate |-> [trip |-> [tripId |-> tr], stopTimeUpdate |-> u]] :
        tr \in {"T1", "T2"},
        u \in UNION { [1..n -> StopTimeUpdates] : n \in 0..MaxUpdates } }

DelayCalls ==
    { [fn |-> "getTripDelay", stage |-> "call", feed |-> [entity |-> e],
       result |-> [found |-> FALSE, delay |-> 0]] :
      e \in UNION { [1..n -> FeedEntities] : n \in 0..MaxEntities } }

InitDelay == MonitorIdle /\ lib \in DelayCalls

\* getTripDelay(feed, "T1", "1") returns
CallGetTripDelay ==
    /\ lib.fn = "getTripDelay"
    /\ lib.stage = "call"
    /\ lib' = [lib EXCEPT !.stage = "return",
                          !.result = getTripDelay(lib.feed, "T1", "1")]
    /\ UNCHANGED monitorVars

NextDelay == CallGetTripDelay

SpecDelay == InitDelay /\ [][NextDelay]_vars

\* the trip updates for T1 in the feed of a call, as indices into feed.entity
UpdatesOfTrip(call) ==
    { i \in DOMAIN call.feed.entity :
        /\ call.feed.entity[i].hasTripUpdate
        /\ call.feed.entity[i].tripUpdate.trip.tripId = "T1" }

\* C16: getTripDelay returns found = FALSE exactly when the feed has no trip
\* update for the trip; when the (first) trip update has no update for the
\* stop the delay is 0; otherwise the delay is the departure delay of the
\* (first) update for the stop when it has one, else its arrival delay when it
\* has one, else 0.
C16_TripDelay ==
    lib.fn = "getTripDelay" /\ lib.stage = "return" =>
        LET ents == UpdatesOfTrip(lib)
            e == CHOOSE i \in ents : \A k \in ents : i <= k
            stus == lib.feed.entity[e].tripUpdate.stopTimeUpdate
            at == { j \in DOMAIN stus : stus[j].stopId = "1" }
            u == CHOOSE j \in at : \A k \in at : j <= k
        IN  /\ lib.result.found <=> ents # {}
            /\ ents = {} => lib.result.delay = 0
            /\ ents # {} /\ at = {} => lib.result.delay = 0
            /\ ents # {} /\ at # {} =>
                  /\ stus[u].departure.hasDelay =>
                        lib.result.delay = stus[u].departure.delay
                  /\ ~stus[u].departure.hasDelay /\ stus[u].arrival.hasDelay =>
                        lib.result.delay = stus[u].arrival.delay
                  /\ ~stus[u].departure.hasDelay /\ ~stus[u].arrival.hasDelay =>
                        lib.result.delay = 0

\* C16 witness: getTripDelay has returned found = TRUE and delay 0 for a trip
\* whose update names only another stop.
C16_Witness ==
    /\ lib.fn = "getTripDelay"
    /\ lib.stage = "return"
    /\ lib.result = [found |-> TRUE, delay |-> 0]
    /\ \E i \in UpdatesOfTrip(lib) :
          LET stus == lib.feed.entity[i].tripUpdate.stopTimeUpdate IN
          stus # <<>> /\ \A j \in DOMAIN stus : stus[j].stopId = "2"

\* ----------------------------------------------------- formatDelay on its own

\* formatDelay is called with -MaxDelaySecs .. MaxDelaySecs
MaxDelaySecs == 200

DelayFormatCalls ==
    { [fn |-> "formatDelay", stage |-> "call", delaySecs |-> s,
       result |-> NoStatus] : s \in (0 - MaxDelaySecs)..MaxDelaySecs }

InitFormat == MonitorIdle /\ lib \in DelayFormatCalls

\* formatDelay(delaySecs) returns
CallFormatDelay ==
    /\ lib.fn = "formatDelay"
    /\ lib.stage = "call"
    /\ lib' = [lib EXCEPT !.stage = "return",
                          !.result = formatDelay(lib.delaySecs)]
    /\ UNCHANGED monitorVars

NextFormat == CallFormatDelay

SpecFormat == InitFormat /\ [][NextFormat]_vars

\* C17: formatDelay(s) is "on time" for |s| < 60; otherwise it is N, "minute"
\* for N = 1 and "minutes" for N > 1, and "late" for s > 0, "early" for s < 0,
\* where N is |s| / 60 rounded to the nearest whole number, a half rounded up;
\* 0 and 59 give "on time", 60 gives "1 minute late", -125 "2 minutes early".
C17_FormatDelay ==
    /\ lib.fn = "formatDelay" /\ lib.stage = "return" =>
          LET s == lib.delaySecs
              size == IF s < 0 THEN 0 - s ELSE s
              N == lib.result[1]
          IN  IF size < 60 THEN lib.result = <<0, "", "on time">>
              ELSE /\ N >= 1
                   /\ 60 * N - 30 <= size
                   /\ size < 60 * N + 30
                   /\ lib.result[2] = (IF N = 1 THEN "minute" ELSE "minutes")
                   /\ s > 0 => lib.result[3] = "late"
                   /\ s < 0 => lib.result[3] = "early"
    /\ formatDelay(0) = <<0, "", "on time">>
    /\ formatDelay(59) = <<0, "", "on time">>
    /\ formatDelay(60) = <<1, "minute", "late">>
    /\ formatDelay(0 - 125) = <<2, "minutes", "early">>

\* C17 witness: formatDelay(-90), a minute and a half, has returned
\* "2 minutes early".
C17_Witness ==
    /\ lib.fn = "formatDelay"
    /\ lib.stage = "return"
    /\ lib.delaySecs = 0 - 90
    /\ lib.result = <<2, "minutes", "early">>

\* ------------------------------------------ ensureStaticGtfs and the cache

CACHE_MAX_AGE == 24 * 60 * 60 * 1000

\* calls of ensureStaticGtfs in all
MaxEnsureCalls == 3
\* versions of the archive the remote source serves: 1 .. MaxVersion
MaxVersion == 2

\* the callers that may be inside ensureStaticGtfs at once (overlapping cycles)
Callers == {"a", "b"}

\* the clock readings of the cache model; a cached archive was written at 0
CacheInstants ==
    { 1000, CACHE_MAX_AGE - 1, CACHE_MAX_AGE, CACHE_MAX_AGE + 1,
      CACHE_MAX_AGE + 1000, 2 * CACHE_MAX_AGE + 1000 }

\* the files in version v of the archive; even versions have no calendar.txt
FilesOf(v) ==
    { <<f, v>> : f \in {"stops.txt", "stop_times.txt", "trips.txt",
                        "calendar_dates.txt"}
                       \cup (IF v % 2 = 1 THEN {"calendar.txt"} ELSE {}) }

NoZip == [exists |-> FALSE, mtimeMs |-> 0, version |-> 0]

NoDir == [exists |-> FALSE, files |-> {}]

\* needsDownload: no ZIP_CACHE_PATH, or its age is not < CACHE_MAX_AGE
NeedsDownload(zip, t) ==
    ~(zip.exists /\ t - zip.mtimeMs < CACHE_MAX_AGE)

\* mutant: the extracted snapshot is left in place after a download
KeepSnapshot(dir) == dir

\* if (fs.existsSync(GTFS_DIR)) fs.rmSync(GTFS_DIR, { recursive: true })
RemoveSnapshot(dir) == NoDir

\* if (!fs.existsSync(GTFS_DIR)) new AdmZip(ZIP_CACHE_PATH).extractAllTo(GTFS_DIR, true)
ExtractIfMissing(zip, dir) ==
    IF dir.exists THEN dir
    ELSE [exists |-> TRUE, files |-> FilesOf(zip.version)]

\* the cache as an earlier run of the program left it: nothing, or an archive
\* written at 0 and its snapshot
CacheStates ==
    { [zip |-> NoZip, dir |-> NoDir] } \cup
    { [zip |-> [exists |-> TRUE, mtimeMs |-> 0, version |-> v],
       dir |-> [exists |-> TRUE, files |-> FilesOf(v)]] : v \in 1..MaxVersion }

NoDecision == [made |-> FALSE, cached |-> FALSE, age |-> 0, needs |-> FALSE]

InitCache ==
    /\ MonitorIdle
    /\ lib \in { [fn |-> "ensureStaticGtfs", clock |-> t, zip |-> c.zip,
                  dir |-> c.dir, pc |-> [k \in Callers |-> "idle"], calls |-> 0,
                  decision |-> NoDecision, returned |-> FALSE, replaced |-> 0] :
                 t \in CacheInstants, c \in CacheStates }

\* time passes
CacheTick ==
    /\ lib.fn = "ensureStaticGtfs"
    /\ \E t \in CacheInstants :
          /\ t > lib.clock
          /\ lib' = [lib EXCEPT !.clock = t, !.decision = NoDecision,
                                !.returned = FALSE]
    /\ UNCHANGED monitorVars

\* ensureStaticGtfs() is called: up to the await of the download, or to its
\* return when the cached archive is fresh
EnsureBegin(c) ==
    /\ lib.fn = "ensureStaticGtfs"
    /\ lib.pc[c] = "idle"
    /\ lib.calls < MaxEnsureCalls
    /\ LET needs == NeedsDownload(lib.zip, lib.clock)
           decided == [made |-> TRUE, cached |-> lib.zip.exists,
                       age |-> lib.clock - lib.zip.mtimeMs, needs |-> needs]
       IN  lib' = IF needs
                  THEN [lib EXCEPT !.pc[c] = "download", !.calls = @ + 1,
                                   !.decision = decided, !.returned = FALSE]
                  ELSE [lib EXCEPT !.calls = @ + 1, !.decision = decided,
                                   !.dir = ExtractIfMissing(lib.zip, @),
                                   !.returned = TRUE]
    /\ UNCHANGED monitorVars

\* the download settles with version v: the archive is written, the old
\* snapshot removed, the new one extracted (replaced: history, the version
\* of the archive that was overwritten)
DownloadDone(c) ==
    /\ lib.fn = "ensureStaticGtfs"
    /\ lib.pc[c] = "download"
    /\ \E v \in 1..MaxVersion :
          LET zip == [exists |-> TRUE, mtimeMs |-> lib.clock, version |-> v] IN
          lib' = [lib EXCEPT !.pc[c] = "idle",
                             !.zip = zip,
                             !.replaced = lib.zip.version,
                             !.dir = ExtractIfMissing(zip, RemoveSnapshot(@)),
                             !.decision = NoDecision,
                             !.returned = TRUE]
    /\ UNCHANGED monitorVars

\* the download fails: ensureStaticGtfs rejects, nothing is written
DownloadFails(c) ==
    /\ lib.fn = "ensureStaticGtfs"
    /\ lib.pc[c] = "download"
    /\ lib' = [lib EXCEPT !.pc[c] = "idle", !.decision = NoDecision,
                          !.returned = FALSE]
    /\ UNCHANGED monitorVars

NextCache ==
    \/ CacheTick
    \/ \E c \in Callers : EnsureBegin(c)
    \/ \E c \in Callers : DownloadDone(c)
    \/ \E c \in Callers : DownloadFails(c)

SpecCache == InitCache /\ [][NextCache]_vars

\* the snapshot on disk is the one extracted from the cached archive alone
SnapshotOfArchive ==
    lib.dir.exists => lib.zip.exists /\ lib.dir.files = FilesOf(lib.zip.version)

\* C18 (as claimed): ensureStaticGtfs downloads exactly when there is no
\* cached archive or the cached archive is older than 24 hours, and the
\* snapshot is always the one extracted from the cached archive alone.
C18_DownloadIfOlder ==
    lib.fn = "ensureStaticGtfs" =>
        /\ lib.decision.made =>
              (lib.decision.needs <=>
                  (~lib.decision.cached \/ lib.decision.age > CACHE_MAX_AGE))
        /\ SnapshotOfArchive
        /\ lib.returned => lib.dir.exists

\* C18 (amended): ensureStaticGtfs downloads exactly when there is no cached
\* archive or the cached archive is 24 hours old or older; the snapshot on
\* disk is always the one extracted from the cached archive alone, with no
\* file of an earlier archive left in it, and it exists after every call that
\* returned.
C18_DownloadIfNotFresh ==
    lib.fn = "ensureStaticGtfs" =>
        /\ lib.decision.made =>
              (lib.decision.needs <=>
                  (~lib.decision.cached \/ lib.decision.age >= CACHE_MAX_AGE))
        /\ SnapshotOfArchive
        /\ lib.returned => lib.dir.exists

\* C18 witness: a download has just replaced an archive that had calendar.txt
\* by one that has none, and the snapshot holds no calendar.txt.
C18_Witness ==
    /\ lib.fn = "ensureStaticGtfs"
    /\ lib.returned
    /\ lib.zip.mtimeMs >= CACHE_MAX_AGE
    /\ lib.replaced = 1
    /\ lib.zip.version = 2
    /\ lib.dir.files = FilesOf(2)

\* ------------------------------------------------ housekeeping of the monitor

\* lastChecked holds keys of the day of t only, skipDates no date before it
Pruned(lc, sd, t) ==
    /\ \A k \in DOMAIN lc : k[4] = todayDateStr(t)
    /\ \A d \in sd : ~StrLess(d, todayDateStr(t))

EarlyReturns == {"snoozed", "skipped", "configError"}

C20_NoLeakAcrossDays ==
    \A n \in EventIdx : IsEnd(events[n]) /\ events[n].outcome = "done" =>
        /\ \A k \in DOMAIN lastChecked : k[4] = todayDateStr(now)
        /\ \A k \in DOMAIN checkResults : k[4] = todayDateStr(now)

\* ------------------------------------------------- the shared schedule index

\* a cycle that did not take the step and waits for the feed of an entry that
\* is not the last of the list: it has entries left to check
ReadersWaiting ==
    { q \in Slots : /\ cyc[q].pc = "awaitFeed"
                    /\ cyc[q].i < Len(Config)
                    /\ cyc'[q] = cyc[q] }

\* C21 (as claimed): while a cycle has entries left to check, no other cycle
\* replaces gtfsData or sets it to null, and no check is run against a null
\* gtfsData.
C21_IndexCycleLocal ==
    [][/\ ReadersWaiting # {} => gtfsData' = gtfsData
       /\ \A n \in DOMAIN events' :
             IsDone(events'[n]) =>
                events'[n].message # MatcherErrorMsg(Config[events'[n].entry], TRUE)
      ]_vars

\* ------------------------------------------------- order within a poll cycle

\* what the step did to checks, in order: the checks it started and finished
ChecksOf(evs) == SelectSeq(evs, LAMBDA e : IsStart(e) \/ IsDone(e))

\* the watch entry a dispatched message is about
EntryOf(message) == CHOOSE i \in DOMAIN Config : Config[i].source = message.source

\* the cycles the step resumed: they were waiting and are not as they were
Resumed(pcs) == { p \in Slots : cyc[p].pc \in pcs /\ cyc'[p] # cyc[p] }

\* the step leaves the cycle q in the announce loop, or with announcements queued
Announcing(q) == cyc'[q].pc = "announce" /\ cyc'[q] # cyc[q]

\* C22: within one poll cycle entries are checked one at a time in list order
\* (a check starts only after the check of the previous entry has finished, and
\* is of a later entry), and the announcements of the cycle are made in the
\* order of their entries in the watch list.
C22_ListOrder ==
    [][LET ce == ChecksOf(events') IN
       /\ \A n \in DOMAIN ce :
            /\ IsStart(ce[n]) /\ n < Len(ce) =>
                  IsDone(ce[n + 1]) /\ ce[n + 1].entry = ce[n].entry
            /\ IsDone(ce[n]) /\ n < Len(ce) =>
                  IsStart(ce[n + 1]) /\ ce[n + 1].entry > ce[n].entry
            \* a check left unfinished is the one its cycle waits for
            /\ IsStart(ce[n]) /\ n = Len(ce) =>
                  \E p \in Slots : /\ cyc'[p].pc = "awaitFeed"
                                   /\ cyc'[p].i = ce[n].entry
                                   /\ cyc'[p] # cyc[p]
       \* a cycle that waited for a check goes on by finishing that check
       /\ \A p \in Resumed({"awaitFeed"}) :
            ce # <<>> /\ IsDone(ce[1]) /\ ce[1].entry = cyc[p].i
       /\ ce # <<>> /\ IsDone(ce[1]) => Resumed({"awaitFeed"}) # {}
       \* the queue of a cycle is in list order, and it is served from its head
       /\ \A q \in Slots :
            /\ \A a, b \in DOMAIN cyc'[q].announcements :
                  a < b => EntryOf(cyc'[q].announcements[a])
                              < EntryOf(cyc'[q].announcements[b])
            /\ Announcing(q) =>
                  \E n \in DOMAIN events' :
                     /\ IsAnnounce(events'[n])
                     /\ events'[n].message = Head(cyc'[q].announcements)
       /\ \A p \in Resumed({"announce"}) :
            \/ cyc'[p].announcements = Tail(cyc[p].announcements)
            \/ Len(cyc[p].announcements) = 1 /\ cyc'[p] = IdleCycle
      ]_vars

\* C22 witness: a cycle that checked both entries, one after the other, is
\* announcing the message of the first entry with that of the second queued
\* behind it.
C22_Witness ==
    \E p \in Slots :
        /\ cyc[p].pc = "announce"
        /\ cyc[p].checked = {1, 2}
        /\ Len(cyc[p].announcements) = 2
        /\ EntryOf(cyc[p].announcements[1]) = 1
        /\ EntryOf(cyc[p].announcements[2]) = 2
        /\ \E n \in EventIdx : IsAnnounce(events[n])
                               /\ events[n].message = cyc[p].announcements[1]

\* ------------------------------------------- the record across a failed check

\* the check of event e succeeded with the message already recorded for its
\* key, and the check of that key before it had failed
RepeatedAfterFailure(e) ==
    /\ IsDone(e)
    /\ e.success
    /\ e.prev # NoCheck /\ ~e.prev.success
    /\ e.existing # NoMsg /\ e.existing = e.message

\* C23: a failed check leaves the message recorded for its departureKey as it
\* was (only a successful check with a changed message writes it); so when a
\* successful check with message M, a failed check and a successful check with
\* message M follow each other on one departureKey, the third dispatches
\* nothing although the error message was dispatched in between.
C23_FailureKeepsRecord ==
    \A n \in EventIdx : IsDone(events[n]) =>
        LET e == events[n]
            recorded == Get(checkResults, e.key, NoMsg)
        IN  /\ ~e.success => recorded = e.existing /\ e.notified
            /\ recorded # e.existing =>
                  e.success /\ e.message # e.existing /\ recorded = e.message
            /\ RepeatedAfterFailure(e) => ~e.notified /\ ~e.queued

\* C23 witness: a check has just succeeded with the message recorded for its
\* key, after a failed check of the same key.
C23_Witness ==
    \E n \in EventIdx :
        /\ RepeatedAfterFailure(events[n])
        /\ events[n].message.kind = "status"
        /\ Get(checkResults, events[n].key, NoMsg) = events[n].message

====
